---- MODULE Spec2Model ----
(***************************************************************************)
(* Conway's Game of Life on a rectangular grid whose edges are glued       *)
(* according to one of six geometries (cursed-life).                       *)
(*                                                                         *)
(* Two Life classes are modelled:                                          *)
(*   - the package class, src/life/life.py   (Spec, SpecBuffer,            *)
(*     SpecConstruct, SpecPatterns, SpecPair)                              *)
(*   - the standalone script class, src/life.py   (SpecScript)             *)
(* SpecDriver is the key loop of the interactive driver,                   *)
(* src/life/__main__.py, with its cursor.                                  *)
(* Both keep one (n_rows+2) x (n_cols+2) boolean array, _padded_state,     *)
(* whose interior [1:-1, 1:-1] is the board and whose one-cell border is   *)
(* rewritten by _update_padding() from the interior.                       *)
(*                                                                         *)
(* A numpy 2-d array is a function  row index -> (column index -> value),  *)
(* indices from 0.  Python's index -1 is written out as the last index.    *)
(***************************************************************************)
EXTENDS Integers, FiniteSets, Sequences, TLC

VARIABLES
    n_rows,        \* self.n_rows
    n_cols,        \* self.n_cols
    geometry,      \* self.geometry, a member of the Geometry enum
    padded_state,  \* self._padded_state
    prob,          \* self.prob, in tenths (5 is 0.5)
    rng,           \* self.rng, the state of the engine's RandomState
    twin,          \* SpecPair: a second engine built with the same arguments
    cursor_y,      \* SpecDriver: the driver's cursor_y
    cursor_x,      \* SpecDriver: the driver's cursor_x
    running,       \* SpecDriver: the driver's running
    last           \* the last call made on the object and how it ended

\* The variables of the interactive driver (src/life/__main__.py).
driver == <<cursor_y, cursor_x, running>>

vars ==
    <<n_rows, n_cols, geometry, padded_state, prob, rng, twin, driver, last>>

(***************************************************************************)
(* Bounds of the model.                                                    *)
(***************************************************************************)
\* Spec: boards of every shape with n_rows * n_cols <= MaxCells.
MaxCells == 4
\* SpecScript: boards of every shape with n_rows * n_cols <= MaxScriptCells.
MaxScriptCells == 4
\* SpecBuffer: boards of every shape with n_rows * n_cols <= MaxBufferCells,
\* started from every content of the padded buffer, border included.
MaxBufferCells == 2
\* The number of states of a seeded generator.
RngPeriod == 16
\* SpecConstruct: the constructor is given n_rows and n_cols up to
\* MaxInitDim.
MaxInitDim == 2
\* SpecPatterns: boards of n_rows, n_cols <= MaxPatternDim.
MaxPatternDim == 4
\* SpecPair: two engines with boards of n_rows * n_cols <= MaxPairCells.
MaxPairCells == 2
\* SpecView: boards of n_rows * n_cols <= MaxViewCells.
MaxViewCells == 2
\* SpecDriver: boards of 2 <= board.rows, board.cols <= MaxDriverDim.
MaxDriverDim == 4

(***************************************************************************)
(* The Geometry enum and the cross-correlation kernel.                     *)
(***************************************************************************)
RECTANGLE == "rectangle"
CYLINDER == "cylinder"
TORUS == "torus"
MOBIUS_STRIP == "mobius"
KLEIN_BOTTLE == "klein"
PROJECTIVE_PLANE == "projective"

GEOMETRIES ==
    {RECTANGLE, CYLINDER, TORUS, MOBIUS_STRIP, KLEIN_BOTTLE, PROJECTIVE_PLANE}

\* The kernel with the centre weight of a plain 3 x 3 box filter.
KERNEL_box == <<<<1, 1, 1>>, <<1, 1, 1>>, <<1, 1, 1>>>>

KERNEL == <<<<1, 1, 1>>, <<1, 10, 1>>, <<1, 1, 1>>>>

(***************************************************************************)
(* numpy indexing on the padded buffer.  LastRow and LastCol are the       *)
(* indices Python writes as -1 on the padded buffer.                       *)
(***************************************************************************)
LastRow == n_rows + 1
LastCol == n_cols + 1

PaddedRows == 0..LastRow
PaddedCols == 0..LastCol
InteriorRows == 0..(n_rows - 1)
InteriorCols == 0..(n_cols - 1)

\* np.zeros(shape=(h, w), dtype=np.bool_)
Zeros(h, w) == [i \in 0..(h - 1) |-> [j \in 0..(w - 1) |-> FALSE]]

\* Every boolean array of shape (h, w).
Grids(h, w) == [0..(h - 1) -> [0..(w - 1) -> BOOLEAN]]

\* The state getter: the view _padded_state[1:-1, 1:-1].
State(p) == [r \in InteriorRows |-> [c \in InteriorCols |-> p[r + 1][c + 1]]]

\* v[::-1] for a 1-d array v of length n.
Reversed(v, n) == [k \in 0..(n - 1) |-> v[n - 1 - k]]

\* s[r, :] and s[:, c] of the interior view s.
RowOf(s, r) == [c \in InteriorCols |-> s[r][c]]
ColOf(s, c) == [r \in InteriorRows |-> s[r][c]]

\* p[i, :] = 0
ZeroRow(p, i) == [p EXCEPT ![i] = [j \in PaddedCols |-> FALSE]]

\* p[:, j] = 0
ZeroCol(p, j) == [i \in PaddedRows |-> [p[i] EXCEPT ![j] = FALSE]]

\* p[i, 1:-1] = v, v of length n_cols
SetRowInner(p, i, v) ==
    [p EXCEPT ![i] = [j \in PaddedCols |->
        IF 1 <= j /\ j <= n_cols THEN v[j - 1] ELSE p[i][j]]]

\* p[1:-1, j] = v, v of length n_rows
SetColInner(p, j, v) ==
    [i \in PaddedRows |->
        IF 1 <= i /\ i <= n_rows THEN [p[i] EXCEPT ![j] = v[i - 1]] ELSE p[i]]

\* p[i, j] = x
SetCell(p, i, j, x) == [p EXCEPT ![i][j] = x]

\* p[1:-1, 1:-1] = g, g of shape (n_rows, n_cols)
\* The slice assignment addressed to the buffer's top left corner instead of
\* to its interior.
SetInterior_unpadded(p, g) ==
    [i \in PaddedRows |-> [j \in PaddedCols |->
        IF i < n_rows /\ j < n_cols THEN g[i][j] ELSE p[i][j]]]

SetInterior(p, g) ==
    [i \in PaddedRows |-> [j \in PaddedCols |->
        IF 1 <= i /\ i <= n_rows /\ 1 <= j /\ j <= n_cols
        THEN g[i - 1][j - 1] ELSE p[i][j]]]

(***************************************************************************)
(* Border synchronization, one operator per _update_padding_* method.      *)
(* Each line of a method is one step of the LET chain; self.state is read  *)
(* again on every line, as the view is.                                    *)
(***************************************************************************)
\* The rectangle rule writing the cylinder's side columns.
update_padding_rectangle_sides_wrapped(p) ==
    LET p1 == ZeroRow(p, 0)
        p2 == ZeroRow(p1, LastRow)
        p3 == SetColInner(p2, 0, ColOf(State(p2), n_cols - 1))
    IN  SetColInner(p3, LastCol, ColOf(State(p3), 0))

\* The rectangle rule without the assignment to the last column.
update_padding_rectangle_right_kept(p) ==
    LET p1 == ZeroRow(p, 0)
        p2 == ZeroRow(p1, LastRow)
    IN  ZeroCol(p2, 0)

update_padding_rectangle(p) ==
    LET p1 == ZeroRow(p, 0)
        p2 == ZeroRow(p1, LastRow)
        p3 == ZeroCol(p2, 0)
    IN  ZeroCol(p3, LastCol)

\* The cylinder rule with the side columns exchanged.
update_padding_cylinder_sides_swapped(p) ==
    LET p1 == ZeroRow(p, 0)
        p2 == ZeroRow(p1, LastRow)
        p3 == SetColInner(p2, 0, ColOf(State(p2), 0))
    IN  SetColInner(p3, LastCol, ColOf(State(p3), n_cols - 1))

update_padding_cylinder(p) ==
    LET p1 == ZeroRow(p, 0)
        p2 == ZeroRow(p1, LastRow)
        p3 == SetColInner(p2, 0, ColOf(State(p2), n_cols - 1))
    IN  SetColInner(p3, LastCol, ColOf(State(p3), 0))

\* The torus rule with the side columns exchanged.
update_padding_torus_sides_swapped(p) ==
    LET p1 == SetRowInner(p, 0, RowOf(State(p), n_rows - 1))
        p2 == SetRowInner(p1, LastRow, RowOf(State(p1), 0))
        p3 == SetColInner(p2, 0, ColOf(State(p2), 0))
        p4 == SetColInner(p3, LastCol, ColOf(State(p3), n_cols - 1))
        p5 == SetCell(p4, 0, 0, State(p4)[n_rows - 1][n_cols - 1])
        p6 == SetCell(p5, 0, LastCol, State(p5)[n_rows - 1][0])
        p7 == SetCell(p6, LastRow, 0, State(p6)[0][n_cols - 1])
    IN  SetCell(p7, LastRow, LastCol, State(p7)[0][0])

update_padding_torus(p) ==
    LET p1 == SetRowInner(p, 0, RowOf(State(p), n_rows - 1))
        p2 == SetRowInner(p1, LastRow, RowOf(State(p1), 0))
        p3 == SetColInner(p2, 0, ColOf(State(p2), n_cols - 1))
        p4 == SetColInner(p3, LastCol, ColOf(State(p3), 0))
        p5 == SetCell(p4, 0, 0, State(p4)[n_rows - 1][n_cols - 1])
        p6 == SetCell(p5, 0, LastCol, State(p5)[n_rows - 1][0])
        p7 == SetCell(p6, LastRow, 0, State(p6)[0][n_cols - 1])
    IN  SetCell(p7, LastRow, LastCol, State(p7)[0][0])

\* The Mobius rule without the row reversal (the cylinder's side rule).
update_padding_mobius_strip_unreversed(p) ==
    LET p1 == ZeroRow(p, 0)
        p2 == ZeroRow(p1, LastRow)
        p3 == SetColInner(p2, 0, ColOf(State(p2), n_cols - 1))
    IN  SetColInner(p3, LastCol, ColOf(State(p3), 0))

update_padding_mobius_strip(p) ==
    LET p1 == ZeroRow(p, 0)
        p2 == ZeroRow(p1, LastRow)
        p3 == SetColInner(p2, 0, Reversed(ColOf(State(p2), n_cols - 1), n_rows))
    IN  SetColInner(p3, LastCol, Reversed(ColOf(State(p3), 0), n_rows))

\* The Klein-bottle rule with the torus's corners.
update_padding_klein_bottle_torus_corners(p) ==
    LET p1 == SetRowInner(p, 0, RowOf(State(p), n_rows - 1))
        p2 == SetRowInner(p1, LastRow, RowOf(State(p1), 0))
        p3 == SetColInner(p2, 0, Reversed(ColOf(State(p2), n_cols - 1), n_rows))
        p4 == SetColInner(p3, LastCol, Reversed(ColOf(State(p3), 0), n_rows))
        p5 == SetCell(p4, 0, 0, State(p4)[n_rows - 1][n_cols - 1])
        p6 == SetCell(p5, 0, LastCol, State(p5)[n_rows - 1][0])
        p7 == SetCell(p6, LastRow, 0, State(p6)[0][n_cols - 1])
    IN  SetCell(p7, LastRow, LastCol, State(p7)[0][0])

update_padding_klein_bottle(p) ==
    LET p1 == SetRowInner(p, 0, RowOf(State(p), n_rows - 1))
        p2 == SetRowInner(p1, LastRow, RowOf(State(p1), 0))
        p3 == SetColInner(p2, 0, Reversed(ColOf(State(p2), n_cols - 1), n_rows))
        p4 == SetColInner(p3, LastCol, Reversed(ColOf(State(p3), 0), n_rows))
        p5 == SetCell(p4, 0, 0, State(p4)[0][n_cols - 1])
        p6 == SetCell(p5, 0, LastCol, State(p5)[0][0])
        p7 == SetCell(p6, LastRow, 0, State(p6)[n_rows - 1][n_cols - 1])
    IN  SetCell(p7, LastRow, LastCol, State(p7)[n_rows - 1][0])

\* The projective-plane rule without the column reversal of the top and
\* bottom rows (the Klein bottle's top and bottom).
update_padding_projective_plane_unreversed(p) ==
    LET p1 == SetRowInner(p, 0, RowOf(State(p), n_rows - 1))
        p2 == SetRowInner(p1, LastRow, RowOf(State(p1), 0))
        p3 == SetColInner(p2, 0, Reversed(ColOf(State(p2), n_cols - 1), n_rows))
        p4 == SetColInner(p3, LastCol, Reversed(ColOf(State(p3), 0), n_rows))
        p5 == SetCell(p4, 0, 0, State(p4)[0][0])
        p6 == SetCell(p5, 0, LastCol, State(p5)[0][n_cols - 1])
        p7 == SetCell(p6, LastRow, 0, State(p6)[n_rows - 1][0])
    IN  SetCell(p7, LastRow, LastCol, State(p7)[n_rows - 1][n_cols - 1])

update_padding_projective_plane(p) ==
    LET p1 == SetRowInner(p, 0, Reversed(RowOf(State(p), n_rows - 1), n_cols))
        p2 == SetRowInner(p1, LastRow, Reversed(RowOf(State(p1), 0), n_cols))
        p3 == SetColInner(p2, 0, Reversed(ColOf(State(p2), n_cols - 1), n_rows))
        p4 == SetColInner(p3, LastCol, Reversed(ColOf(State(p3), 0), n_rows))
        p5 == SetCell(p4, 0, 0, State(p4)[0][0])
        p6 == SetCell(p5, 0, LastCol, State(p5)[0][n_cols - 1])
        p7 == SetCell(p6, LastRow, 0, State(p6)[n_rows - 1][0])
    IN  SetCell(p7, LastRow, LastCol, State(p7)[n_rows - 1][n_cols - 1])

\* _update_padding: the dispatch on self.geometry.  The final else branch
\* (ValueError) needs a geometry outside the enum, which the constructor
\* never stores.
update_padding(p) ==
    IF geometry = RECTANGLE THEN update_padding_rectangle(p)
    ELSE IF geometry = CYLINDER THEN update_padding_cylinder(p)
    ELSE IF geometry = TORUS THEN update_padding_torus(p)
    ELSE IF geometry = MOBIUS_STRIP THEN update_padding_mobius_strip(p)
    ELSE IF geometry = KLEIN_BOTTLE THEN update_padding_klein_bottle(p)
    ELSE update_padding_projective_plane(p)

(***************************************************************************)
(* The state setter.  Its argument is any array: [ndim, h, w, cells] is an *)
(* array of 0, 1 or 2 dimensions, a 0-d array having h = w = 1 and a 1-d   *)
(* array of length w having h = 1.  The slice assignment                   *)
(* _padded_state[1:-1, 1:-1] = new_state follows numpy's broadcasting:     *)
(* each trailing dimension of new_state must equal the target's or be 1,   *)
(* and a dimension of 1 is repeated.  Otherwise numpy raises ValueError    *)
(* before it writes anything.                                              *)
(***************************************************************************)
ExactShape(v) == v.ndim = 2 /\ v.h = n_rows /\ v.w = n_cols

Broadcastable(v) == (v.h = n_rows \/ v.h = 1) /\ (v.w = n_cols \/ v.w = 1)

Broadcast(v) ==
    [r \in InteriorRows |-> [c \in InteriorCols |->
        v.cells[IF v.h = 1 THEN 0 ELSE r][IF v.w = 1 THEN 0 ELSE c]]]

\* An (n_rows, n_cols) array as the setter's argument.
Array2(g) == [ndim |-> 2, h |-> n_rows, w |-> n_cols, cells |-> g]

\* The setter without the call of _update_padding.
state_setter_no_sync(p, v) ==
    IF Broadcastable(v)
    THEN [err |-> "none", padded |-> SetInterior(p, Broadcast(v))]
    ELSE [err |-> "ValueError", padded |-> p]

state_setter(p, v) ==
    IF Broadcastable(v)
    THEN [err |-> "none", padded |-> update_padding(SetInterior(p, Broadcast(v)))]
    ELSE [err |-> "ValueError", padded |-> p]

\* life.state[row, col] = x: the getter returns the slice
\* _padded_state[1:-1, 1:-1], a view of the buffer, and the element
\* assignment writes the buffer's cell through it; a negative index counts
\* from the end of the view, an index outside it raises IndexError.
view_setitem(p, row, col, x) ==
    IF (-n_rows) <= row /\ row < n_rows /\ (-n_cols) <= col /\ col < n_cols
    THEN [err |-> "none",
          padded |-> SetCell(p, (row % n_rows) + 1, (col % n_cols) + 1, x)]
    ELSE [err |-> "IndexError", padded |-> p]

\* clear(): self.state = np.zeros(shape=(n_rows, n_cols))
clear(p) == state_setter(p, Array2(Zeros(n_rows, n_cols)))

\* randomize(): self.state = rng.choice([False, True], ..., size=(n_rows,
\* n_cols)); g is the array the generator returns.
randomize(p, g) == state_setter(p, Array2(g))

\* toggle_cell of the package class without the call of _update_padding.
toggle_cell_no_sync(p, row, col) ==
    IF ~(0 <= row /\ row < n_rows /\ 0 <= col /\ col < n_cols)
    THEN [err |-> "IndexError", padded |-> p]
    ELSE [err |-> "none",
          padded |-> SetCell(p, row + 1, col + 1, ~p[row + 1][col + 1])]

\* toggle_cell with a guard that tests the upper limits only, so that a
\* negative index reaches numpy, which counts it from the end.
toggle_cell_negative_wraps(p, row, col) ==
    IF ~(row < n_rows /\ col < n_cols)
    THEN [err |-> "IndexError", padded |-> p]
    ELSE LET i == IF row + 1 < 0 THEN row + 1 + n_rows + 2 ELSE row + 1
             j == IF col + 1 < 0 THEN col + 1 + n_cols + 2 ELSE col + 1
         IN  [err |-> "none",
              padded |-> update_padding(SetCell(p, i, j, ~p[i][j]))]

\* toggle_cell that makes the cell alive (|= True) instead of flipping it.
toggle_cell_sets_alive(p, row, col) ==
    IF ~(0 <= row /\ row < n_rows /\ 0 <= col /\ col < n_cols)
    THEN [err |-> "IndexError", padded |-> p]
    ELSE [err |-> "none",
          padded |-> update_padding(SetCell(p, row + 1, col + 1, TRUE))]

\* toggle_cell of the package class (src/life/life.py).
toggle_cell(p, row, col) ==
    IF ~(0 <= row /\ row < n_rows /\ 0 <= col /\ col < n_cols)
    THEN [err |-> "IndexError", padded |-> p]
    ELSE [err |-> "none",
          padded |-> update_padding(
              SetCell(p, row + 1, col + 1, ~p[row + 1][col + 1]))]

\* toggle_cell of the standalone script's class (src/life.py).
script_toggle_cell(p, row, col) ==
    IF ~(0 <= row /\ row < n_rows /\ 0 <= col /\ col < n_cols)
    THEN [err |-> "IndexError", padded |-> p]
    ELSE [err |-> "none",
          padded |-> SetCell(p, row + 1, col + 1, ~p[row + 1][col + 1])]

(***************************************************************************)
(* evolve().  correlate(in1, k, mode="same") gives an integer array of     *)
(* in1's shape: out[i, j] is the sum over the 3 x 3 window centred on      *)
(* (i, j) of k times in1, in1 being zero outside its bounds and True       *)
(* counting as 1.                                                          *)
(***************************************************************************)
AsInt(p, i, j) ==
    IF i \in PaddedRows /\ j \in PaddedCols /\ p[i][j] THEN 1 ELSE 0

correlate(p, k) ==
    [i \in PaddedRows |-> [j \in PaddedCols |->
          k[1][1] * AsInt(p, i - 1, j - 1) + k[1][2] * AsInt(p, i - 1, j)
        + k[1][3] * AsInt(p, i - 1, j + 1) + k[2][1] * AsInt(p, i, j - 1)
        + k[2][2] * AsInt(p, i, j)         + k[2][3] * AsInt(p, i, j + 1)
        + k[3][1] * AsInt(p, i + 1, j - 1) + k[3][2] * AsInt(p, i + 1, j)
        + k[3][3] * AsInt(p, i + 1, j + 1)]]

\* a[1:-1, 1:-1] of an array of the padded shape.
Inner(a) == [r \in InteriorRows |-> [c \in InteriorCols |-> a[r + 1][c + 1]]]

\* evolve without the birth of a dead cell that has three living neighbours.
evolve_no_birth(p) ==
    LET neighbors == correlate(p, KERNEL)
        new_state == [i \in PaddedRows |-> [j \in PaddedCols |->
                         neighbors[i][j] = 12 \/ neighbors[i][j] = 13]]
    IN  state_setter(p, Array2(Inner(new_state)))

\* evolve without the survival of a living cell that has three living
\* neighbours.
evolve_no_survival_on_three(p) ==
    LET neighbors == correlate(p, KERNEL)
        new_state == [i \in PaddedRows |-> [j \in PaddedCols |->
                         neighbors[i][j] = 12 \/ neighbors[i][j] = 3]]
    IN  state_setter(p, Array2(Inner(new_state)))

evolve(p) ==
    LET neighbors == correlate(p, KERNEL)
        new_state == [i \in PaddedRows |-> [j \in PaddedCols |->
                         neighbors[i][j] = 12 \/ neighbors[i][j] = 13
                             \/ neighbors[i][j] = 3]]
    IN  state_setter(p, Array2(Inner(new_state)))

(***************************************************************************)
(* The pseudo-random generator, numpy.random.RandomState.  Its algorithm   *)
(* is numpy's; what the engine relies on is that RandomState(seed) with a  *)
(* seed starts in a state the seed fixes, that each draw is a function of  *)
(* the state and moves the state on, and that RandomState(None) starts in  *)
(* a state taken from the operating system's entropy.  A seeded generator  *)
(* [seeded |-> TRUE, s |-> state] is a linear congruential generator on    *)
(* RngPeriod states; an unseeded one, [seeded |-> FALSE, s |-> 0], stands  *)
(* for every state it may have: a draw from it returns any value.          *)
(***************************************************************************)
\* seed=None, and the default prob=0.5 in tenths.
NoSeed == [given |-> FALSE, value |-> 0]
IntSeed(n) == [given |-> TRUE, value |-> n]
DefaultProb == 5

\* np.random.RandomState() called without the seed.
RandomState_seed_dropped(seed) == [seeded |-> FALSE, s |-> 0]

\* np.random.RandomState(seed)
RandomState(seed) ==
    IF seed.given
    THEN [seeded |-> TRUE, s |-> seed.value % RngPeriod]
    ELSE [seeded |-> FALSE, s |-> 0]

\* The generator's state after k uniform samples.
RECURSIVE Advance(_, _)
Advance(s, k) == IF k = 0 THEN s ELSE Advance((5 * s + 3) % RngPeriod, k - 1)

\* choice([False, True], p=[1 - pr, pr]) on one uniform sample u = s /
\* RngPeriod in [0, 1): the index is the number of entries of the cumulative
\* distribution [1 - pr, 1] that are <= u, so True iff u >= 1 - pr.
ChoiceOf(s, pr) == 10 * s >= (10 - pr) * RngPeriod

\* rng.choice([False, True], p=[1 - pr, pr], size=(n_rows, n_cols)): the
\* grids the generator g can return, each with the generator's next state.
\* The samples fill the grid in row-major order.
choice(g, pr) ==
    IF g.seeded
    THEN {[grid |-> [r \in InteriorRows |-> [c \in InteriorCols |->
                        ChoiceOf(Advance(g.s, r * n_cols + c), pr)]],
           rng |-> [g EXCEPT !.s = Advance(g.s, n_rows * n_cols)]]}
    ELSE {[grid |-> x, rng |-> g] :
             x \in {y \in Grids(n_rows, n_cols) :
                        \A r \in InteriorRows, c \in InteriorCols :
                            /\ pr = 0 => ~y[r][c]
                            /\ pr = 10 => y[r][c]}}

\* No second engine.
NoTwin == <<>>

\* The driver's variables while no driver runs.
DriverAbsent == cursor_y = 0 /\ cursor_x = 0 /\ running = FALSE

(***************************************************************************)
(* Inputs.                                                                 *)
(***************************************************************************)
\* The board shapes with at most n cells.
Boards(n) == {b \in (1..n) \X (1..n) : b[1] * b[2] <= n}

\* The arguments given to the state setter: 0-d, 1-d and 2-d arrays of every
\* shape up to one more than the board's.  Arrays numpy can broadcast are
\* drawn with every content; the others are rejected on their shape alone,
\* and are drawn all-False and all-True.
ArrayShapes ==
    {[ndim |-> 0, h |-> 1, w |-> 1]}
        \cup {[ndim |-> 1, h |-> 1, w |-> w] : w \in 1..(n_cols + 1)}
        \cup {[ndim |-> 2, h |-> h, w |-> w] :
                  h \in 1..(n_rows + 1), w \in 1..(n_cols + 1)}

ArraysOf(s) ==
    {[ndim |-> s.ndim, h |-> s.h, w |-> s.w, cells |-> g] :
        g \in IF Broadcastable(s)
              THEN Grids(s.h, s.w)
              ELSE {[i \in 0..(s.h - 1) |-> [j \in 0..(s.w - 1) |-> x]] :
                        x \in BOOLEAN}}

NewStates == UNION {ArraysOf(s) : s \in ArrayShapes}

\* The row and column arguments given to toggle_cell.
ToggleRows == (-2)..(n_rows + 1)
ToggleCols == (-2)..(n_cols + 1)

\* Grids given to the setter in SpecPatterns: a line of three cells along
\* row r, a 2 x 2 block, a single cell, and the board with every cell alive.
HorizontalLine(r, c) ==
    [i \in InteriorRows |-> [j \in InteriorCols |->
        i = r /\ c - 1 <= j /\ j <= c + 1]]

Block(r, c) ==
    [i \in InteriorRows |-> [j \in InteriorCols |->
        r <= i /\ i <= r + 1 /\ c <= j /\ j <= c + 1]]

SingleCell(r, c) ==
    [i \in InteriorRows |-> [j \in InteriorCols |-> i = r /\ j = c]]

AllAlive == [i \in InteriorRows |-> [j \in InteriorCols |-> TRUE]]

Patterns ==
    {HorizontalLine(r, c) :
         r \in InteriorRows, c \in 1..(n_cols - 2)}
        \cup {Block(r, c) : r \in 0..(n_rows - 2), c \in 0..(n_cols - 2)}
        \cup {SingleCell(r, c) : r \in InteriorRows, c \in InteriorCols}
        \cup {AllAlive}

\* What `last` records: the operation, its argument (<<"exact">> or
\* <<"mismatch">> for the shape given to the setter, <<row, col>> for an
\* in-range toggle_cell, <<"out">> for an out-of-range one) and the exception
\* it raised, if any.
Called(op, arg, err) == [op |-> op, arg |-> arg, err |-> err]

(***************************************************************************)
(* Construction.                                                           *)
(***************************************************************************)
\* Life.__init__ of the package class, called as Life(n_rows, n_cols,
\* geometry=...) with the default prob and seed: the padded buffer is all
\* False and _update_padding is not called.
Init ==
    /\ \E b \in Boards(MaxCells) : n_rows = b[1] /\ n_cols = b[2]
    /\ geometry \in GEOMETRIES
    /\ padded_state = Zeros(n_rows + 2, n_cols + 2)
    /\ prob = DefaultProb
    /\ rng = RandomState(NoSeed)
    /\ twin = NoTwin
    /\ DriverAbsent
    /\ last = Called("init", <<>>, "none")

\* Life.__init__ of the script's class: the same, then self.state =
\* self.state.
InitScript ==
    /\ \E b \in Boards(MaxScriptCells) : n_rows = b[1] /\ n_cols = b[2]
    /\ geometry \in GEOMETRIES
    /\ padded_state =
           LET zeros == Zeros(n_rows + 2, n_cols + 2)
           IN  state_setter(zeros, Array2(State(zeros))).padded
    /\ prob = DefaultProb
    /\ rng = RandomState(NoSeed)
    /\ twin = NoTwin
    /\ DriverAbsent
    /\ last = Called("init", <<>>, "none")

\* A Life object whose padded buffer holds any content, border included.
InitBuffer ==
    /\ \E b \in Boards(MaxBufferCells) : n_rows = b[1] /\ n_cols = b[2]
    /\ geometry \in GEOMETRIES
    /\ padded_state \in Grids(n_rows + 2, n_cols + 2)
    /\ prob = DefaultProb
    /\ rng = RandomState(NoSeed)
    /\ twin = NoTwin
    /\ DriverAbsent
    /\ last = Called("init", <<>>, "none")

(***************************************************************************)
(* The constructor with its arguments.  An argument value is [kind, val]:  *)
(* kind "int" is a Python int val, kind "float" is the float val / 10,     *)
(* kind "str" is a value that is no number.                                *)
(***************************************************************************)
Failed(err) == [err |-> err, value |-> 0]
Checked(value) == [err |-> "none", value |-> value]

\* check_positive_int (src/life/utils.py)
check_positive_int(value) ==
    IF value.kind = "int"
    THEN IF value.val > 0 THEN Checked(value.val) ELSE Failed("ValueError")
    ELSE Failed("TypeError")

\* check_probability that moves an out-of-range value to the nearest limit.
check_probability_clamped(value) ==
    IF value.kind \in {"int", "float"}
    THEN LET f == IF value.kind = "int" THEN 10 * value.val ELSE value.val
         IN  Checked(IF f < 0 THEN 0 ELSE IF f > 10 THEN 10 ELSE f)
    ELSE Failed("TypeError")

\* check_probability (src/life/utils.py); the value returned is float(value),
\* in tenths.
check_probability(value) ==
    IF value.kind \in {"int", "float"}
    THEN LET f == IF value.kind = "int" THEN 10 * value.val ELSE value.val
         IN  IF 0 <= f /\ f <= 10 THEN Checked(f) ELSE Failed("ValueError")
    ELSE Failed("TypeError")

\* Geometry(name): the member of the enum whose value is name.
GeometryOf(name) ==
    IF name \in GEOMETRIES
    THEN [err |-> "none", value |-> name]
    ELSE [err |-> "ValueError", value |-> ""]

\* The geometry names the docstring of Life lists as acceptable.
DocumentedGeometries ==
    {"rectangle", "cylinder", "torus", "Mobius strip", "Klein bottle",
     "projective plane"}

\* The variables while no engine exists.
NoEngine ==
    [n_rows |-> 0, n_cols |-> 0, geometry |-> "", prob |-> 0,
     rng |-> RandomState(NoSeed), padded_state |-> <<>>]

\* Life.__init__(n_rows, n_cols, geometry=..., prob=..., seed=...): the
\* exception raised, if any, and the attributes of the new engine.
life_init(rows_arg, cols_arg, geometry_arg, prob_arg, seed) ==
    LET rows == check_positive_int(rows_arg)
        cols == check_positive_int(cols_arg)
        pr == check_probability(prob_arg)
        geo == GeometryOf(geometry_arg)
    IN  IF rows.err # "none" THEN [err |-> rows.err, engine |-> NoEngine]
        ELSE IF cols.err # "none" THEN [err |-> cols.err, engine |-> NoEngine]
        ELSE IF pr.err # "none" THEN [err |-> pr.err, engine |-> NoEngine]
        ELSE IF geo.err # "none" THEN [err |-> geo.err, engine |-> NoEngine]
        ELSE [err |-> "none",
              engine |-> [n_rows |-> rows.value, n_cols |-> cols.value,
                          geometry |-> geo.value, prob |-> pr.value,
                          rng |-> RandomState(seed),
                          padded_state |->
                              Zeros(rows.value + 2, cols.value + 2)]]

\* The arguments given to the constructor.
DimArgs ==
    {[kind |-> "int", val |-> v] : v \in (-1)..MaxInitDim}
        \cup {[kind |-> "float", val |-> 15]}

ProbArgs ==
    {[kind |-> "float", val |-> v] : v \in {-5, 0, 5, 10, 15}}
        \cup {[kind |-> "int", val |-> v] : v \in {-1, 0, 1, 2}}
        \cup {[kind |-> "str", val |-> 0]}

GeometryArgs == GEOMETRIES \cup DocumentedGeometries \cup {"sphere"}

SeedArgs == {NoSeed, IntSeed(0), IntSeed(3)}

\* Before the constructor is called.
InitConstruct ==
    /\ n_rows = NoEngine.n_rows
    /\ n_cols = NoEngine.n_cols
    /\ geometry = NoEngine.geometry
    /\ padded_state = NoEngine.padded_state
    /\ prob = NoEngine.prob
    /\ rng = NoEngine.rng
    /\ twin = NoTwin
    /\ DriverAbsent
    /\ last = Called("none", <<>>, "none")

\* life = Life(rows_arg, cols_arg, geometry=geometry_arg, prob=prob_arg,
\* seed=seed)
Construct ==
    /\ last.op = "none"
    /\ \E rows_arg \in DimArgs, cols_arg \in DimArgs,
          geometry_arg \in GeometryArgs, prob_arg \in ProbArgs,
          seed \in SeedArgs :
          LET res == life_init(rows_arg, cols_arg, geometry_arg, prob_arg, seed)
          IN  /\ n_rows' = res.engine.n_rows
              /\ n_cols' = res.engine.n_cols
              /\ geometry' = res.engine.geometry
              /\ padded_state' = res.engine.padded_state
              /\ prob' = res.engine.prob
              /\ rng' = res.engine.rng
              /\ last' = Called("init",
                                <<rows_arg, cols_arg, geometry_arg, prob_arg,
                                  seed>>,
                                res.err)
              /\ UNCHANGED <<twin, driver>>

NextConstruct == Construct

SpecConstruct == InitConstruct /\ [][NextConstruct]_vars

(***************************************************************************)
(* Operations.                                                             *)
(***************************************************************************)
\* life.state = v
SetState ==
    \E v \in NewStates :
        LET res == state_setter(padded_state, v)
        IN  /\ padded_state' = res.padded
            /\ last' = Called("set_state",
                              IF ExactShape(v) THEN <<"exact">> ELSE <<"mismatch">>,
                              res.err)
            /\ UNCHANGED <<n_rows, n_cols, geometry, prob, rng, twin, driver>>

\* life.clear()
Clear ==
    /\ padded_state' = clear(padded_state).padded
    /\ last' = Called("clear", <<>>, "none")
    /\ UNCHANGED <<n_rows, n_cols, geometry, prob, rng, twin, driver>>

\* life.randomize(): the grid is what self.rng returns, and the generator
\* moves on.
Randomize ==
    \E d \in choice(rng, prob) :
        /\ padded_state' = randomize(padded_state, d.grid).padded
        /\ rng' = d.rng
        /\ last' = Called("randomize", <<>>, "none")
        /\ UNCHANGED <<n_rows, n_cols, geometry, prob, twin, driver>>

\* life.toggle_cell(row, col) on the package class
ToggleCell ==
    \E row \in ToggleRows, col \in ToggleCols :
        LET res == toggle_cell(padded_state, row, col)
        IN  /\ padded_state' = res.padded
            /\ last' = Called("toggle_cell",
                              IF res.err = "none" THEN <<row, col>> ELSE <<"out">>,
                              res.err)
            /\ UNCHANGED <<n_rows, n_cols, geometry, prob, rng, twin, driver>>

\* life.toggle_cell(row, col) on the script's class
ScriptToggleCell ==
    \E row \in ToggleRows, col \in ToggleCols :
        LET res == script_toggle_cell(padded_state, row, col)
        IN  /\ padded_state' = res.padded
            /\ last' = Called("toggle_cell",
                              IF res.err = "none" THEN <<row, col>> ELSE <<"out">>,
                              res.err)
            /\ UNCHANGED <<n_rows, n_cols, geometry, prob, rng, twin, driver>>

\* life.evolve()
Evolve ==
    /\ padded_state' = evolve(padded_state).padded
    /\ last' = Called("evolve", <<>>, "none")
    /\ UNCHANGED <<n_rows, n_cols, geometry, prob, rng, twin, driver>>

\* life._update_padding()
UpdatePadding ==
    /\ padded_state' = update_padding(padded_state)
    /\ last' = Called("_update_padding", <<>>, "none")
    /\ UNCHANGED <<n_rows, n_cols, geometry, prob, rng, twin, driver>>

\* The package class, driven by any sequence of its public operations.
Next == SetState \/ Clear \/ Randomize \/ ToggleCell \/ Evolve

Spec == Init /\ [][Next]_vars

\* The script's class, driven by any sequence of its public operations.
NextScript == SetState \/ Clear \/ Randomize \/ ScriptToggleCell \/ Evolve

SpecScript == InitScript /\ [][NextScript]_vars

\* evolve and _update_padding applied to every padded buffer.
NextBuffer == Evolve \/ UpdatePadding

SpecBuffer == InitBuffer /\ [][NextBuffer]_vars

\* Boards of up to MaxPatternDim x MaxPatternDim cells on which patterns are
\* set and evolved.
InitPatterns ==
    /\ n_rows \in 1..MaxPatternDim
    /\ n_cols \in 1..MaxPatternDim
    /\ geometry \in GEOMETRIES
    /\ padded_state = Zeros(n_rows + 2, n_cols + 2)
    /\ prob = DefaultProb
    /\ rng = RandomState(NoSeed)
    /\ twin = NoTwin
    /\ DriverAbsent
    /\ last = Called("init", <<>>, "none")

\* life.state = g for a pattern g
SetPattern ==
    \E g \in Patterns :
        LET res == state_setter(padded_state, Array2(g))
        IN  /\ padded_state' = res.padded
            /\ last' = Called("set_state", <<"exact">>, res.err)
            /\ UNCHANGED <<n_rows, n_cols, geometry, prob, rng, twin, driver>>

NextPatterns == SetPattern \/ Evolve

SpecPatterns == InitPatterns /\ [][NextPatterns]_vars

\* The package class with, besides its methods, element writes through the
\* array the state getter returns.
InitView ==
    /\ \E b \in Boards(MaxViewCells) : n_rows = b[1] /\ n_cols = b[2]
    /\ geometry \in GEOMETRIES
    /\ padded_state = Zeros(n_rows + 2, n_cols + 2)
    /\ prob = DefaultProb
    /\ rng = RandomState(NoSeed)
    /\ twin = NoTwin
    /\ DriverAbsent
    /\ last = Called("init", <<>>, "none")

\* life.state[row, col] = x
WriteThroughView ==
    \E row \in (-1)..n_rows, col \in (-1)..n_cols, x \in BOOLEAN :
        LET res == view_setitem(padded_state, row, col, x)
        IN  /\ padded_state' = res.padded
            /\ last' = Called("view_setitem",
                              IF res.err = "none" THEN <<row, col>> ELSE <<"out">>,
                              res.err)
            /\ UNCHANGED <<n_rows, n_cols, geometry, prob, rng, twin, driver>>

NextView ==
    SetState \/ Clear \/ Randomize \/ ToggleCell \/ Evolve \/ WriteThroughView

SpecView == InitView /\ [][NextView]_vars

(***************************************************************************)
(* Two engines built by the same constructor call and given the same       *)
(* calls.  The first is in the engine's variables; `twin` has the seed     *)
(* both were given and the second one's buffer and generator (its          *)
(* dimensions, geometry and probability are the first one's).              *)
(***************************************************************************)
PairProbs == {0, 5, 10}

InitPair ==
    /\ \E b \in Boards(MaxPairCells), g \in GEOMETRIES, pr \in PairProbs,
          seed \in SeedArgs :
          LET first == life_init([kind |-> "int", val |-> b[1]],
                                 [kind |-> "int", val |-> b[2]],
                                 g, [kind |-> "float", val |-> pr], seed).engine
              second == life_init([kind |-> "int", val |-> b[1]],
                                  [kind |-> "int", val |-> b[2]],
                                  g, [kind |-> "float", val |-> pr], seed).engine
          IN  /\ n_rows = first.n_rows
              /\ n_cols = first.n_cols
              /\ geometry = first.geometry
              /\ prob = first.prob
              /\ padded_state = first.padded_state
              /\ rng = first.rng
              /\ twin = [seed |-> seed, padded_state |-> second.padded_state,
                         rng |-> second.rng]
    /\ DriverAbsent
    /\ last = Called("init", <<>>, "none")

\* life.randomize() on both engines
PairRandomize ==
    \E d \in choice(rng, prob), e \in choice(twin.rng, prob) :
        /\ padded_state' = randomize(padded_state, d.grid).padded
        /\ rng' = d.rng
        /\ twin' = [twin EXCEPT
                        !.padded_state = randomize(twin.padded_state, e.grid).padded,
                        !.rng = e.rng]
        /\ last' = Called("randomize", <<>>, "none")
        /\ UNCHANGED <<n_rows, n_cols, geometry, prob, driver>>

\* life.evolve() on both engines
PairEvolve ==
    /\ padded_state' = evolve(padded_state).padded
    /\ twin' = [twin EXCEPT !.padded_state = evolve(twin.padded_state).padded]
    /\ last' = Called("evolve", <<>>, "none")
    /\ UNCHANGED <<n_rows, n_cols, geometry, prob, rng, driver>>

\* life.clear() on both engines
PairClear ==
    /\ padded_state' = clear(padded_state).padded
    /\ twin' = [twin EXCEPT !.padded_state = clear(twin.padded_state).padded]
    /\ last' = Called("clear", <<>>, "none")
    /\ UNCHANGED <<n_rows, n_cols, geometry, prob, rng, driver>>

\* life.toggle_cell(row, col) on both engines
PairToggleCell ==
    \E row \in ToggleRows, col \in ToggleCols :
        LET res == toggle_cell(padded_state, row, col)
        IN  /\ padded_state' = res.padded
            /\ twin' = [twin EXCEPT
                            !.padded_state =
                                toggle_cell(twin.padded_state, row, col).padded]
            /\ last' = Called("toggle_cell",
                              IF res.err = "none" THEN <<row, col>> ELSE <<"out">>,
                              res.err)
            /\ UNCHANGED <<n_rows, n_cols, geometry, prob, rng, driver>>

NextPair == PairRandomize \/ PairEvolve \/ PairClear \/ PairToggleCell

SpecPair == InitPair /\ [][NextPair]_vars

(***************************************************************************)
(* The interactive driver, main() of src/life/__main__.py.  Its board is a *)
(* LifeBoard: n_rows is board.rows, n_cols is board.cols, geometry is      *)
(* board.geometry.  The cells of the board are kept by GameOfLife, the     *)
(* base class of LifeBoard, which the sources do not have: the model has   *)
(* no cells for this board, and `last` records the key read by getch()     *)
(* and, for Enter, the arguments of the toggle_cell call it makes.         *)
(* A step is one pass of the `while True` loop.  Mouse events are left     *)
(* out.                                                                    *)
(***************************************************************************)
Cursor(y, x) == [cursor_y |-> y, cursor_x |-> x]

\* cursor_y = board.rows // 2 + 1; cursor_x = board.cols // 2
cursor_init == Cursor(n_rows \div 2 + 1, n_cols \div 2)

\* c == curses.KEY_UP
key_up(y, x) ==
    IF y > 2 THEN Cursor(y - 1, x)
    ELSE IF geometry \in {RECTANGLE, CYLINDER, MOBIUS_STRIP} THEN Cursor(y, x)
    ELSE IF geometry \in {TORUS, KLEIN_BOTTLE} THEN Cursor(n_rows + 1, x)
    ELSE IF geometry = PROJECTIVE_PLANE THEN Cursor(n_rows + 1, n_cols - x + 1)
    ELSE Cursor(y, x)

\* c == curses.KEY_DOWN
key_down(y, x) ==
    IF y < n_rows + 1 THEN Cursor(y + 1, x)
    ELSE IF geometry \in {RECTANGLE, CYLINDER, MOBIUS_STRIP} THEN Cursor(y, x)
    ELSE IF geometry \in {TORUS, KLEIN_BOTTLE} THEN Cursor(2, x)
    ELSE IF geometry = PROJECTIVE_PLANE THEN Cursor(2, n_cols - x + 1)
    ELSE Cursor(y, x)

\* KEY_LEFT with the row reflected to board.rows - cursor_y + 2.
key_left_reflects_one_short(y, x) ==
    IF x > 1 THEN Cursor(y, x - 1)
    ELSE IF geometry = RECTANGLE THEN Cursor(y, x)
    ELSE IF geometry \in {CYLINDER, TORUS} THEN Cursor(y, n_cols)
    ELSE IF geometry \in {MOBIUS_STRIP, KLEIN_BOTTLE, PROJECTIVE_PLANE}
         THEN Cursor(n_rows - y + 2, n_cols)
    ELSE Cursor(y, x)

\* c == curses.KEY_LEFT
key_left(y, x) ==
    IF x > 1 THEN Cursor(y, x - 1)
    ELSE IF geometry = RECTANGLE THEN Cursor(y, x)
    ELSE IF geometry \in {CYLINDER, TORUS} THEN Cursor(y, n_cols)
    ELSE IF geometry \in {MOBIUS_STRIP, KLEIN_BOTTLE, PROJECTIVE_PLANE}
         THEN Cursor(n_rows - y + 3, n_cols)
    ELSE Cursor(y, x)

\* c == curses.KEY_RIGHT
key_right(y, x) ==
    IF x < n_cols THEN Cursor(y, x + 1)
    ELSE IF geometry = RECTANGLE THEN Cursor(y, x)
    ELSE IF geometry \in {CYLINDER, TORUS} THEN Cursor(y, 1)
    ELSE IF geometry \in {MOBIUS_STRIP, KLEIN_BOTTLE, PROJECTIVE_PLANE}
         THEN Cursor(n_rows - y + 3, 1)
    ELSE Cursor(y, x)

\* board.toggle_geometry(): the geometry the board has afterwards.  The
\* method is GameOfLife's; any of the six geometries may follow.
toggle_geometry == GEOMETRIES

\* main() up to the loop: the board window is y rows high and x columns
\* wide, LifeBoard takes board.rows = y - 1 and board.cols = x and is built
\* as a torus, and the cursor is put in the middle.
InitDriver ==
    /\ \E y \in 3..(MaxDriverDim + 1), x \in 2..MaxDriverDim :
          /\ n_rows = y - 1
          /\ n_cols = x
    /\ geometry = TORUS
    /\ padded_state = NoEngine.padded_state
    /\ prob = NoEngine.prob
    /\ rng = NoEngine.rng
    /\ twin = NoTwin
    /\ cursor_y = cursor_init.cursor_y
    /\ cursor_x = cursor_init.cursor_x
    /\ running = FALSE
    /\ last = Called("init", <<>>, "none")

\* The loop runs until 'q' is read.
Looping == last.op # "key_quit"

\* c == ' ': start or stop running
KeySpace ==
    /\ Looping
    /\ running' = ~running
    /\ last' = Called("key_space", <<>>, "none")
    /\ UNCHANGED <<n_rows, n_cols, geometry, padded_state, prob, rng, twin,
                   cursor_y, cursor_x>>

\* c in 'qQ': break
KeyQuit ==
    /\ Looping
    /\ last' = Called("key_quit", <<>>, "none")
    /\ UNCHANGED <<n_rows, n_cols, geometry, padded_state, prob, rng, twin,
                   driver>>

\* c in 'cC': board.clear(); c in 'rR': board.random_board();
\* c in 'aA': board.draw() if not running
KeyBoard ==
    /\ Looping
    /\ \E key \in {"key_clear", "key_random", "key_advance"} :
           last' = Called(key, <<>>, "none")
    /\ UNCHANGED <<n_rows, n_cols, geometry, padded_state, prob, rng, twin,
                   driver>>

\* c in 'gG': board.toggle_geometry()
KeyGeometry ==
    /\ Looping
    /\ geometry' \in toggle_geometry
    /\ last' = Called("key_geometry", <<>>, "none")
    /\ UNCHANGED <<n_rows, n_cols, padded_state, prob, rng, twin, driver>>

\* c == '\n': board.toggle_cell(cursor_y - 2, cursor_x - 1) if not running
KeyEnter ==
    /\ Looping
    /\ last' = Called("key_enter",
                      IF running THEN <<>> ELSE <<cursor_y - 2, cursor_x - 1>>,
                      "none")
    /\ UNCHANGED <<n_rows, n_cols, geometry, padded_state, prob, rng, twin,
                   driver>>

\* An arrow key: ignored while running
KeyArrow ==
    /\ Looping
    /\ \E key \in {"key_up", "key_down", "key_left", "key_right"} :
           LET to == IF running THEN Cursor(cursor_y, cursor_x)
                     ELSE IF key = "key_up" THEN key_up(cursor_y, cursor_x)
                     ELSE IF key = "key_down" THEN key_down(cursor_y, cursor_x)
                     ELSE IF key = "key_left" THEN key_left(cursor_y, cursor_x)
                     ELSE key_right(cursor_y, cursor_x)
           IN  /\ cursor_y' = to.cursor_y
               /\ cursor_x' = to.cursor_x
               /\ last' = Called(key, <<>>, "none")
    /\ UNCHANGED <<n_rows, n_cols, geometry, padded_state, prob, rng, twin,
                   running>>

\* Any other key, or no key within the timeout while running
KeyOther ==
    /\ Looping
    /\ last' = Called("key_other", <<>>, "none")
    /\ UNCHANGED <<n_rows, n_cols, geometry, padded_state, prob, rng, twin,
                   driver>>

NextDriver ==
    KeySpace \/ KeyQuit \/ KeyBoard \/ KeyGeometry \/ KeyEnter \/ KeyArrow
        \/ KeyOther

SpecDriver == InitDriver /\ [][NextDriver]_vars

(***************************************************************************)
(* Vocabulary of the properties: the interior and the border of the        *)
(* current padded buffer, by side.                                         *)
(***************************************************************************)
\* interior[r][c]
Interior(r, c) == padded_state[r + 1][c + 1]

\* The border cells: at column c of the top and bottom rows, at row r of the
\* left and right columns, and the four corners.
Top(c) == padded_state[0][c + 1]
Bottom(c) == padded_state[LastRow][c + 1]
Left(r) == padded_state[r + 1][0]
Right(r) == padded_state[r + 1][LastCol]
TopLeft == padded_state[0][0]
TopRight == padded_state[0][LastCol]
BottomLeft == padded_state[LastRow][0]
BottomRight == padded_state[LastRow][LastCol]

\* Some border cell is alive.
BorderAlive ==
    \E i \in PaddedRows, j \in PaddedCols :
        /\ i = 0 \/ i = LastRow \/ j = 0 \/ j = LastCol
        /\ padded_state[i][j]

\* The number of living cells among the 8 cells around (i, j) of buffer p,
\* (i, j) an interior position in the padded buffer's coordinates.
LivingNeighbours(p, i, j) ==
    Cardinality({n \in ((i - 1)..(i + 1)) \X ((j - 1)..(j + 1)) :
                     n # <<i, j>> /\ p[n[1]][n[2]]})

\* Conway's rule for the cell at (i, j) of buffer p.
ConwayAlive(p, i, j) ==
    \/ LivingNeighbours(p, i, j) = 3
    \/ p[i][j] /\ LivingNeighbours(p, i, j) \in {2, 3}

(***************************************************************************)
(* C1.  Package class: in every state reachable from construction by state *)
(* assignment, clear, randomize, toggle_cell and evolve, under each        *)
(* geometry, the border of the padded buffer is the border the geometry's  *)
(* synchronization computes from the current interior: synchronizing again *)
(* changes nothing.                                                        *)
(***************************************************************************)
C1_BorderSynchronized == padded_state = update_padding(padded_state)

\* A toggle on a 2 x 2 projective plane has left a living border cell.
C1_Witness ==
    /\ last.op = "toggle_cell" /\ last.err = "none"
    /\ geometry = PROJECTIVE_PLANE /\ n_rows = 2 /\ n_cols = 2
    /\ BorderAlive

(***************************************************************************)
(* C2.  evolve() replaces the interior by Conway's rule applied to every   *)
(* interior cell at once, the neighbours counted in the old padded buffer, *)
(* border included; so the weighted sum (10 on the centre, 1 on each       *)
(* neighbour, alive iff 12, 13 or 3) agrees with the direct rule on every  *)
(* padded buffer, and every new cell depends on the old generation only.   *)
(***************************************************************************)
C2_EvolveIsConway ==
    [][last'.op = "evolve" =>
           \A r \in InteriorRows, c \in InteriorCols :
               padded_state'[r + 1][c + 1]
                   = ConwayAlive(padded_state, r + 1, c + 1)]_vars

\* evolve has run on a two-cell board and left one cell alive, one dead.
C2_Witness ==
    /\ last.op = "evolve"
    /\ n_rows * n_cols = 2
    /\ \E r \in InteriorRows, c \in InteriorCols : Interior(r, c)
    /\ \E r \in InteriorRows, c \in InteriorCols : ~Interior(r, c)

(***************************************************************************)
(* C3.  Torus: top border at column c = interior[R-1][c], bottom =         *)
(* interior[0][c], left border at row r = interior[r][C-1], right =        *)
(* interior[r][0], and each corner is the interior's diagonally opposite   *)
(* corner.                                                                 *)
(***************************************************************************)
C3_TorusBorder ==
    geometry = TORUS =>
        /\ \A c \in InteriorCols :
               /\ Top(c) = Interior(n_rows - 1, c)
               /\ Bottom(c) = Interior(0, c)
        /\ \A r \in InteriorRows :
               /\ Left(r) = Interior(r, n_cols - 1)
               /\ Right(r) = Interior(r, 0)
        /\ TopLeft = Interior(n_rows - 1, n_cols - 1)
        /\ TopRight = Interior(n_rows - 1, 0)
        /\ BottomLeft = Interior(0, n_cols - 1)
        /\ BottomRight = Interior(0, 0)

\* A 2 x 2 torus whose only living cell is interior[0][0].
C3_Witness ==
    /\ geometry = TORUS /\ n_rows = 2 /\ n_cols = 2
    /\ last.op = "set_state" /\ last.err = "none"
    /\ \A r \in InteriorRows, c \in InteriorCols :
           Interior(r, c) <=> (r = 0 /\ c = 0)
    /\ BottomRight /\ Right(0) /\ Bottom(0)

(***************************************************************************)
(* C4.  Klein bottle: top and bottom as on the torus, left border at row   *)
(* r = interior[R-1-r][C-1], right = interior[R-1-r][0], corners top-left  *)
(* = interior[0][C-1], top-right = interior[0][0], bottom-left =           *)
(* interior[R-1][C-1], bottom-right = interior[R-1][0]; and when           *)
(* interior[0][C-1] and interior[R-1][C-1] differ, or interior[0][0] and   *)
(* interior[R-1][0] differ, the four corners are not the torus's corners   *)
(* of the same interior.                                                   *)
(***************************************************************************)
C4_KleinBottleBorder ==
    geometry = KLEIN_BOTTLE =>
        /\ \A c \in InteriorCols :
               /\ Top(c) = Interior(n_rows - 1, c)
               /\ Bottom(c) = Interior(0, c)
        /\ \A r \in InteriorRows :
               /\ Left(r) = Interior(n_rows - 1 - r, n_cols - 1)
               /\ Right(r) = Interior(n_rows - 1 - r, 0)
        /\ TopLeft = Interior(0, n_cols - 1)
        /\ TopRight = Interior(0, 0)
        /\ BottomLeft = Interior(n_rows - 1, n_cols - 1)
        /\ BottomRight = Interior(n_rows - 1, 0)
        /\ (\/ Interior(0, n_cols - 1) # Interior(n_rows - 1, n_cols - 1)
            \/ Interior(0, 0) # Interior(n_rows - 1, 0))
           => <<TopLeft, TopRight, BottomLeft, BottomRight>>
                  # <<Interior(n_rows - 1, n_cols - 1), Interior(n_rows - 1, 0),
                      Interior(0, n_cols - 1), Interior(0, 0)>>

\* A 2 x 2 Klein bottle whose right-hand corner cells differ.
C4_Witness ==
    /\ geometry = KLEIN_BOTTLE /\ n_rows = 2 /\ n_cols = 2
    /\ last.op = "randomize"
    /\ Interior(0, 1) /\ ~Interior(1, 1)
    /\ TopLeft /\ ~BottomLeft

(***************************************************************************)
(* C5.  Real projective plane: top border at column c =                    *)
(* interior[R-1][C-1-c], bottom = interior[0][C-1-c], left border at row r *)
(* = interior[R-1-r][C-1], right = interior[R-1-r][0], and each corner is  *)
(* the interior's own corner on the same side.                             *)
(***************************************************************************)
C5_ProjectivePlaneBorder ==
    geometry = PROJECTIVE_PLANE =>
        /\ \A c \in InteriorCols :
               /\ Top(c) = Interior(n_rows - 1, n_cols - 1 - c)
               /\ Bottom(c) = Interior(0, n_cols - 1 - c)
        /\ \A r \in InteriorRows :
               /\ Left(r) = Interior(n_rows - 1 - r, n_cols - 1)
               /\ Right(r) = Interior(n_rows - 1 - r, 0)
        /\ TopLeft = Interior(0, 0)
        /\ TopRight = Interior(0, n_cols - 1)
        /\ BottomLeft = Interior(n_rows - 1, 0)
        /\ BottomRight = Interior(n_rows - 1, n_cols - 1)

\* A 2 x 2 projective plane whose only living cell is interior[1][0]: the
\* top border is alive at column 1, not at column 0.
C5_Witness ==
    /\ geometry = PROJECTIVE_PLANE /\ n_rows = 2 /\ n_cols = 2
    /\ last.op = "evolve" \/ last.op = "toggle_cell"
    /\ \A r \in InteriorRows, c \in InteriorCols :
           Interior(r, c) <=> (r = 1 /\ c = 0)
    /\ Top(1) /\ ~Top(0)

(***************************************************************************)
(* C6.  Mobius strip: the whole top and bottom border rows, corners        *)
(* included, are false; left border at row r = interior[R-1-r][C-1],       *)
(* right = interior[R-1-r][0].                                             *)
(***************************************************************************)
C6_MobiusStripBorder ==
    geometry = MOBIUS_STRIP =>
        /\ \A j \in PaddedCols :
               ~padded_state[0][j] /\ ~padded_state[LastRow][j]
        /\ \A r \in InteriorRows :
               /\ Left(r) = Interior(n_rows - 1 - r, n_cols - 1)
               /\ Right(r) = Interior(n_rows - 1 - r, 0)

\* A 3 x 1 Mobius strip whose only living cell is interior[0][0]: the side
\* borders are alive at row 2 only.
C6_Witness ==
    /\ geometry = MOBIUS_STRIP /\ n_rows = 3 /\ n_cols = 1
    /\ last.op = "toggle_cell" /\ last.err = "none"
    /\ \A r \in InteriorRows : Interior(r, 0) <=> r = 0
    /\ Left(2) /\ Right(2) /\ ~Left(0) /\ ~Right(0)

(***************************************************************************)
(* C7.  Cylinder: the whole top and bottom border rows, corners included,  *)
(* are false; left border at row r = interior[r][C-1], right =             *)
(* interior[r][0].                                                         *)
(***************************************************************************)
C7_CylinderBorder ==
    geometry = CYLINDER =>
        /\ \A j \in PaddedCols :
               ~padded_state[0][j] /\ ~padded_state[LastRow][j]
        /\ \A r \in InteriorRows :
               /\ Left(r) = Interior(r, n_cols - 1)
               /\ Right(r) = Interior(r, 0)

\* A 2 x 2 cylinder whose only living cell is interior[0][1]: the left
\* border is alive at row 0, the right border nowhere.
C7_Witness ==
    /\ geometry = CYLINDER /\ n_rows = 2 /\ n_cols = 2
    /\ last.op = "set_state" /\ last.err = "none"
    /\ \A r \in InteriorRows, c \in InteriorCols :
           Interior(r, c) <=> (r = 0 /\ c = 1)
    /\ Left(0) /\ ~Left(1) /\ ~Right(0) /\ ~Right(1)

(***************************************************************************)
(* C8.  Plane (rectangle): in every reachable state all border cells, the  *)
(* four sides and the four corners, are false, whatever the interior.      *)
(***************************************************************************)
C8_RectangleBorderFalse == geometry = RECTANGLE => ~BorderAlive

\* A 2 x 2 plane with all four cells alive.
C8_Witness ==
    /\ geometry = RECTANGLE /\ n_rows = 2 /\ n_cols = 2
    /\ last.op # "init"
    /\ \A r \in InteriorRows, c \in InteriorCols : Interior(r, c)

(***************************************************************************)
(* C9.  Script class: toggle_cell(row, col) with an in-range cell flips    *)
(* exactly that interior cell and then resynchronizes the border, so that  *)
(* right after the call the border is what the geometry's synchronization  *)
(* computes from the new interior.                                         *)
(***************************************************************************)
C9_ScriptToggleResynchronizes ==
    [][(last'.op = "toggle_cell" /\ last'.err = "none") =>
           /\ \A r \in InteriorRows, c \in InteriorCols :
                  padded_state'[r + 1][c + 1]
                      = IF <<r, c>> = last'.arg
                        THEN ~padded_state[r + 1][c + 1]
                        ELSE padded_state[r + 1][c + 1]
           /\ padded_state' = update_padding(padded_state')]_vars

(***************************************************************************)
(* C10.  Assigning through the state setter an array whose shape is not    *)
(* exactly (n_rows, n_cols) fails with an error and leaves the interior    *)
(* and the border as they were.                                            *)
(***************************************************************************)
C10_ShapeMismatchRejected ==
    [][(last'.op = "set_state" /\ last'.arg = <<"mismatch">>) =>
           /\ last'.err = "ValueError"
           /\ padded_state' = padded_state]_vars

(***************************************************************************)
(* C11.  toggle_cell(row, col) with row < 0, row >= n_rows, col < 0 or     *)
(* col >= n_cols raises IndexError and leaves the whole padded buffer,     *)
(* interior and border, as it was, in the package class and in the         *)
(* script's class; a negative index never wraps around to a cell.          *)
(***************************************************************************)
C11_OutOfRangeToggleRejected ==
    \A row \in ToggleRows, col \in ToggleCols :
        (row < 0 \/ row >= n_rows \/ col < 0 \/ col >= n_cols) =>
            /\ toggle_cell(padded_state, row, col)
                   = [err |-> "IndexError", padded |-> padded_state]
            /\ script_toggle_cell(padded_state, row, col)
                   = [err |-> "IndexError", padded |-> padded_state]

\* An out-of-range toggle_cell has raised IndexError on a 2 x 2 torus with a
\* living cell and a living border cell.
C11_Witness ==
    /\ last.op = "toggle_cell" /\ last.err = "IndexError"
    /\ geometry = TORUS /\ n_rows = 2 /\ n_cols = 2
    /\ Interior(0, 0) /\ ~Interior(1, 1) /\ BorderAlive

(***************************************************************************)
(* C12.  Constructing a Life with n_rows <= 0, n_cols <= 0, prob < 0,      *)
(* prob > 1 or a geometry name that is no value of the enum raises an      *)
(* error and yields no engine: an out-of-range value is never clamped.     *)
(* Construction with positive dimensions, prob in [0, 1] and a geometry    *)
(* of the enum succeeds, keeps the values given and has an all-dead board. *)
(***************************************************************************)
\* The arguments of the constructor call that `last` records.
RowsArg == last.arg[1]
ColsArg == last.arg[2]
GeometryArg == last.arg[3]
ProbArg == last.arg[4]

ConstructorCalled == last.op = "init" /\ Len(last.arg) = 5

\* The value of a numeric argument, in tenths.
Tenths(a) == IF a.kind = "int" THEN 10 * a.val ELSE a.val

IsNumber(a) == a.kind \in {"int", "float"}

GoodDims ==
    /\ RowsArg.kind = "int" /\ RowsArg.val > 0
    /\ ColsArg.kind = "int" /\ ColsArg.val > 0

GoodProb == IsNumber(ProbArg) /\ 0 <= Tenths(ProbArg) /\ Tenths(ProbArg) <= 10

EngineAbsent ==
    /\ n_rows = 0 /\ n_cols = 0 /\ geometry = "" /\ padded_state = <<>>

BadArgs ==
    \/ RowsArg.kind = "int" /\ RowsArg.val <= 0
    \/ ColsArg.kind = "int" /\ ColsArg.val <= 0
    \/ IsNumber(ProbArg) /\ Tenths(ProbArg) < 0
    \/ IsNumber(ProbArg) /\ Tenths(ProbArg) > 10
    \/ GeometryArg \notin GEOMETRIES

C12_ConstructorValidates ==
    ConstructorCalled =>
        /\ BadArgs => last.err # "none" /\ EngineAbsent
        /\ (GoodDims /\ GoodProb /\ GeometryArg \in GEOMETRIES)
            => /\ last.err = "none"
               /\ n_rows = RowsArg.val /\ n_cols = ColsArg.val
               /\ prob = Tenths(ProbArg)
               /\ geometry = GeometryArg
               /\ DOMAIN padded_state = 0..(n_rows + 1)
               /\ \A i \in 0..(n_rows + 1) :
                      /\ DOMAIN padded_state[i] = 0..(n_cols + 1)
                      /\ \A j \in 0..(n_cols + 1) : ~padded_state[i][j]

\* Life(2, 1, geometry="klein", prob=1.5) has raised ValueError.
C12_Witness ==
    /\ ConstructorCalled
    /\ RowsArg = [kind |-> "int", val |-> 2]
    /\ ColsArg = [kind |-> "int", val |-> 1]
    /\ GeometryArg = KLEIN_BOTTLE
    /\ ProbArg = [kind |-> "float", val |-> 15]
    /\ last.err = "ValueError" /\ EngineAbsent

(***************************************************************************)
(* C13.  The package class accepts each of the six geometry names its      *)
(* docstring lists - "rectangle", "cylinder", "torus", "Mobius strip",     *)
(* "Klein bottle", "projective plane" - and builds an engine with that     *)
(* topology's synchronization rule.                                        *)
(***************************************************************************)
\* The enum member whose synchronization rule a documented name stands for.
TopologyOf(name) ==
    IF name = "Mobius strip" THEN MOBIUS_STRIP
    ELSE IF name = "Klein bottle" THEN KLEIN_BOTTLE
    ELSE IF name = "projective plane" THEN PROJECTIVE_PLANE
    ELSE name

C13_DocumentedGeometriesAccepted ==
    (ConstructorCalled /\ GoodDims /\ GoodProb
         /\ GeometryArg \in DocumentedGeometries)
        => last.err = "none" /\ geometry = TopologyOf(GeometryArg)

(***************************************************************************)
(* C14.  Round trip: for every geometry and every boolean grid g of shape  *)
(* n_rows x n_cols, after the state setter is given g the state getter     *)
(* returns g cell for cell.  Border synchronization changes no interior    *)
(* cell, and the getter's value has the interior's cells only.             *)
(***************************************************************************)
C14_RoundTrip ==
    /\ \A g \in Grids(n_rows, n_cols) :
           LET res == state_setter(padded_state, Array2(g))
           IN  /\ res.err = "none"
               /\ State(res.padded) = g
               /\ DOMAIN State(res.padded) = 0..(n_rows - 1)
               /\ \A r \in InteriorRows :
                      DOMAIN State(res.padded)[r] = 0..(n_cols - 1)
               /\ \A r \in InteriorRows, c \in InteriorCols :
                      State(res.padded)[r][c] = res.padded[r + 1][c + 1]
    /\ State(update_padding(padded_state)) = State(padded_state)

\* A 2 x 2 Klein bottle after the setter was given an array of its shape with
\* (0, 1) and (1, 0) alive: the getter returns that grid, and border cells
\* are alive.
C14_Witness ==
    /\ geometry = KLEIN_BOTTLE /\ n_rows = 2 /\ n_cols = 2
    /\ last.op = "set_state" /\ last.arg = <<"exact">> /\ last.err = "none"
    /\ State(padded_state) = [r \in 0..1 |-> [c \in 0..1 |-> r # c]]
    /\ BorderAlive

(***************************************************************************)
(* C15.  Idempotent padding: for every geometry, every interior and every  *)
(* prior content of the border, _update_padding gives each of the          *)
(* 2 * n_rows + 2 * n_cols + 4 border cells a value that depends on the    *)
(* interior only, so synchronizing twice gives the same padded buffer as   *)
(* synchronizing once.                                                     *)
(***************************************************************************)
BorderCells ==
    {ij \in PaddedRows \X PaddedCols :
        ij[1] = 0 \/ ij[1] = LastRow \/ ij[2] = 0 \/ ij[2] = LastCol}

\* The interior of p inside a border of cells that all have the value x.
WithBorder(p, x) ==
    [i \in PaddedRows |-> [j \in PaddedCols |->
        IF <<i, j>> \in BorderCells THEN x ELSE p[i][j]]]

C15_PaddingIdempotent ==
    /\ Cardinality(BorderCells) = 2 * n_rows + 2 * n_cols + 4
    /\ update_padding(padded_state) = update_padding(WithBorder(padded_state, FALSE))
    /\ update_padding(padded_state) = update_padding(WithBorder(padded_state, TRUE))
    /\ update_padding(update_padding(padded_state)) = update_padding(padded_state)

\* _update_padding has run on a 1 x 2 rectangle with living cells, and on a
\* 2 x 1 Mobius strip whose border has living cells.
C15_Witness ==
    /\ last.op = "_update_padding"
    /\ \/ geometry = RECTANGLE /\ n_cols = 2 /\ Interior(0, 0) /\ Interior(0, 1)
       \/ geometry = MOBIUS_STRIP /\ n_rows = 2 /\ Interior(0, 0)
              /\ ~Interior(1, 0) /\ BorderAlive

(***************************************************************************)
(* C16.  Blinker oscillation: on a rectangle board, three living cells in  *)
(* a horizontal line at (r, c-1), (r, c), (r, c+1), with rows r-1 and r+1  *)
(* inside the grid and no other living cell, become after one evolve()     *)
(* exactly the vertical line (r-1, c), (r, c), (r+1, c), and after a       *)
(* second evolve() exactly the horizontal line again.                      *)
(***************************************************************************)
VerticalLine(r, c) ==
    [i \in InteriorRows |-> [j \in InteriorCols |->
        j = c /\ r - 1 <= i /\ i <= r + 1]]

C16_BlinkerOscillates ==
    \A r \in 1..(n_rows - 2), c \in 1..(n_cols - 2) :
        (geometry = RECTANGLE /\ State(padded_state) = HorizontalLine(r, c)) =>
            LET once == evolve(padded_state).padded
                twice == evolve(once).padded
            IN  /\ State(once) = VerticalLine(r, c)
                /\ State(twice) = HorizontalLine(r, c)

\* On a 3 x 4 rectangle evolve() has produced the horizontal line around
\* (1, 2); the setter puts horizontal lines only, so the vertical line came
\* before it.
C16_Witness ==
    /\ geometry = RECTANGLE /\ n_rows = 3 /\ n_cols = 4
    /\ last.op = "evolve"
    /\ State(padded_state) = HorizontalLine(1, 2)

(***************************************************************************)
(* C17.  Stable still life: on a rectangle board, an interior whose only   *)
(* living cells form a 2 x 2 block that touches no edge row and no edge    *)
(* column is unchanged by evolve(), and so by any number of evolve()       *)
(* calls.                                                                  *)
(***************************************************************************)
C17_BlockIsStill ==
    \A r \in 1..(n_rows - 3), c \in 1..(n_cols - 3) :
        (geometry = RECTANGLE /\ State(padded_state) = Block(r, c)) =>
            /\ evolve(padded_state).padded = padded_state
            /\ State(evolve(padded_state).padded) = Block(r, c)

\* evolve() has run on the 4 x 4 rectangle whose centre is the block.
C17_Witness ==
    /\ geometry = RECTANGLE /\ n_rows = 4 /\ n_cols = 4
    /\ last.op = "evolve"
    /\ State(padded_state) = Block(1, 1)

(***************************************************************************)
(* C18.  Torus wraparound: on a 3 x 3 torus the 8 padded-buffer neighbours *)
(* of interior cell (0, 0) are the 8 other interior cells (2,2), (2,0),    *)
(* (2,1), (0,2), (0,1), (1,2), (1,0), (1,1), each once; with all nine      *)
(* cells alive the neighbour count of (0, 0) is 8, and with only (0, 0)    *)
(* alive every other cell counts exactly 1 living neighbour.               *)
(***************************************************************************)
\* What evolve computes for interior cell (r, c): ten times the cell itself
\* plus the number of its living neighbours in the padded buffer.
Neighbors(r, c) == correlate(padded_state, KERNEL)[r + 1][c + 1]

C18_TorusWraparound ==
    (geometry = TORUS /\ n_rows = 3 /\ n_cols = 3) =>
        /\ padded_state[0][0] = Interior(2, 2)
        /\ padded_state[0][1] = Interior(2, 0)
        /\ padded_state[0][2] = Interior(2, 1)
        /\ padded_state[1][0] = Interior(0, 2)
        /\ padded_state[1][2] = Interior(0, 1)
        /\ padded_state[2][0] = Interior(1, 2)
        /\ padded_state[2][1] = Interior(1, 0)
        /\ padded_state[2][2] = Interior(1, 1)
        /\ State(padded_state) = AllAlive =>
               /\ LivingNeighbours(padded_state, 1, 1) = 8
               /\ Neighbors(0, 0) = 18
        /\ State(padded_state) = SingleCell(0, 0) =>
               \A r \in InteriorRows, c \in InteriorCols :
                   <<r, c>> # <<0, 0>> =>
                       /\ LivingNeighbours(padded_state, r + 1, c + 1) = 1
                       /\ Neighbors(r, c) = 1

\* The setter has put the single cell (0, 0) on a 3 x 3 torus.
C18_Witness ==
    /\ geometry = TORUS /\ n_rows = 3 /\ n_cols = 3
    /\ last.op = "set_state" /\ last.err = "none"
    /\ State(padded_state) = SingleCell(0, 0)
    /\ padded_state[1][4] /\ padded_state[4][1] /\ padded_state[4][4]

(***************************************************************************)
(* C19.  Plane isolation: on a rectangle board of any size, an interior    *)
(* whose only living cell is one of the four corner cells has 0 living     *)
(* neighbours for that cell and is all dead after one evolve().            *)
(***************************************************************************)
C19_CornerCellDies ==
    \A r \in {0, n_rows - 1}, c \in {0, n_cols - 1} :
        (geometry = RECTANGLE /\ State(padded_state) = SingleCell(r, c)) =>
            /\ LivingNeighbours(padded_state, r + 1, c + 1) = 0
            /\ Neighbors(r, c) = 10
            /\ State(evolve(padded_state).padded) = Zeros(n_rows, n_cols)

\* The setter has put the single cell (1, 2), the bottom right corner, on a
\* 2 x 3 rectangle.
C19_Witness ==
    /\ geometry = RECTANGLE /\ n_rows = 2 /\ n_cols = 3
    /\ last.op = "set_state" /\ last.err = "none"
    /\ State(padded_state) = SingleCell(1, 2)

C21_ClearGivesAllFalse ==
    LET res == clear(padded_state)
    IN  /\ res.err = "none"
        /\ \A i \in PaddedRows, j \in PaddedCols : ~res.padded[i][j]
        /\ last.op = "clear" =>
               \A i \in PaddedRows, j \in PaddedCols : ~padded_state[i][j]

\* clear() has run on a 2 x 2 projective plane.
C21_Witness ==
    /\ geometry = PROJECTIVE_PLANE /\ n_rows = 2 /\ n_cols = 2
    /\ last.op = "clear"
    /\ padded_state = Zeros(4, 4)

(***************************************************************************)
(* C22.  Every interior write the package class makes possible to a        *)
(* caller, an element write through the array the state getter returns     *)
(* included, is followed by border resynchronization before the next       *)
(* evolve(): evolve() never counts neighbours from a border that disagrees *)
(* with the interior.                                                      *)
(***************************************************************************)
C22_EvolveReadsSynchronizedBorder ==
    [][last'.op = "evolve" => padded_state = update_padding(padded_state)]_vars

(***************************************************************************)
(* C23.  Corner consistency: for the torus, the Klein bottle and the       *)
(* projective plane, and every interior, each of the four corner border    *)
(* cells equals the interior cell found by composing the geometry's        *)
(* top/bottom edge identification with its left/right edge identification  *)
(* at the out-of-grid corner position, and the two orders of composition   *)
(* give the same interior cell; for the projective plane the top left      *)
(* corner position maps to interior cell (0, 0).                           *)
(***************************************************************************)
\* Positions are in interior coordinates: row -1 and row n_rows are the
\* border rows, column -1 and column n_cols the border columns.
At(pos) == padded_state[pos[1] + 1][pos[2] + 1]

\* The top/bottom identification: a position in a border row is the position
\* in the opposite interior row, in the mirrored column on the projective
\* plane.
AcrossTopBottom(pos) ==
    LET c == IF geometry = PROJECTIVE_PLANE THEN n_cols - 1 - pos[2] ELSE pos[2]
    IN  IF pos[1] = -1 THEN <<n_rows - 1, c>>
        ELSE IF pos[1] = n_rows THEN <<0, c>>
        ELSE pos

\* The left/right identification: a position in a border column is the
\* position in the opposite interior column, in the mirrored row on the Klein
\* bottle and the projective plane.
AcrossLeftRight(pos) ==
    LET r == IF geometry \in {KLEIN_BOTTLE, PROJECTIVE_PLANE}
             THEN n_rows - 1 - pos[1] ELSE pos[1]
    IN  IF pos[2] = -1 THEN <<r, n_cols - 1>>
        ELSE IF pos[2] = n_cols THEN <<r, 0>>
        ELSE pos

CornerPositions == {-1, n_rows} \X {-1, n_cols}

C23_CornersComposeEdges ==
    geometry \in {TORUS, KLEIN_BOTTLE, PROJECTIVE_PLANE} =>
        /\ \A r \in {-1, n_rows}, c \in InteriorCols :
               At(<<r, c>>) = At(AcrossTopBottom(<<r, c>>))
        /\ \A r \in InteriorRows, c \in {-1, n_cols} :
               At(<<r, c>>) = At(AcrossLeftRight(<<r, c>>))
        /\ \A pos \in CornerPositions :
               /\ AcrossLeftRight(AcrossTopBottom(pos))
                      = AcrossTopBottom(AcrossLeftRight(pos))
               /\ AcrossLeftRight(AcrossTopBottom(pos))
                      \in InteriorRows \X InteriorCols
               /\ At(pos) = At(AcrossLeftRight(AcrossTopBottom(pos)))
        /\ geometry = PROJECTIVE_PLANE =>
               AcrossLeftRight(AcrossTopBottom(<<-1, -1>>)) = <<0, 0>>

\* A 2 x 2 Klein bottle whose only living cell is (0, 1): of the corners,
\* the top left one alone is alive.
C23_Witness ==
    /\ geometry = KLEIN_BOTTLE /\ n_rows = 2 /\ n_cols = 2
    /\ last.op \in {"set_state", "toggle_cell"} /\ last.err = "none"
    /\ \A r \in InteriorRows, c \in InteriorCols :
           Interior(r, c) <=> (r = 0 /\ c = 1)
    /\ TopLeft /\ ~TopRight /\ ~BottomLeft /\ ~BottomRight

(***************************************************************************)
(* C24.  On a torus board of any size, n_rows = 1 or n_cols = 1 included,  *)
(* evolve() commutes with cyclic shifts of the interior: moving every cell *)
(* a rows down (mod n_rows) and b columns right (mod n_cols) and then      *)
(* evolving gives the same interior as evolving and then moving.           *)
(***************************************************************************)
Shift(g, a, b) ==
    [r \in InteriorRows |-> [c \in InteriorCols |->
        g[(r - a) % n_rows][(c - b) % n_cols]]]

C24_TorusEvolveCommutesWithShift ==
    geometry = TORUS =>
        \A a \in InteriorRows, b \in InteriorCols :
            LET shifted ==
                    state_setter(padded_state,
                                 Array2(Shift(State(padded_state), a, b))).padded
            IN  State(evolve(shifted).padded)
                    = Shift(State(evolve(padded_state).padded), a, b)

\* evolve() has turned a single living cell of the 1 x 3 torus into three:
\* each dead cell counted it three times, through the top border, the
\* bottom border and its own row.
C24_Witness ==
    /\ geometry = TORUS /\ n_rows = 1 /\ n_cols = 3
    /\ last.op = "evolve"
    /\ Interior(0, 0) /\ Interior(0, 1) /\ Interior(0, 2)

(***************************************************************************)
(* C25.  In the package class toggle_cell is an involution on the whole    *)
(* padded buffer: for every geometry, every state the class's methods      *)
(* reach and every in-range (row, col), calling toggle_cell(row, col)      *)
(* twice restores interior and border exactly, and one call changes no     *)
(* interior cell other than (row, col).                                    *)
(***************************************************************************)
C25_ToggleIsInvolution ==
    \A row \in InteriorRows, col \in InteriorCols :
        LET once == toggle_cell(padded_state, row, col)
            twice == toggle_cell(once.padded, row, col)
        IN  /\ once.err = "none" /\ twice.err = "none"
            /\ twice.padded = padded_state
            /\ State(once.padded)[row][col] = ~State(padded_state)[row][col]
            /\ \A r \in InteriorRows, c \in InteriorCols :
                   <<r, c>> # <<row, col>> =>
                       State(once.padded)[r][c] = State(padded_state)[r][c]

\* toggle_cell(1, 0) has made (1, 0) the second living cell of a 2 x 2
\* Mobius strip whose border has living cells.
C25_Witness ==
    /\ geometry = MOBIUS_STRIP /\ n_rows = 2 /\ n_cols = 2
    /\ last.op = "toggle_cell" /\ last.arg = <<1, 0>>
    /\ Interior(1, 0) /\ Interior(0, 1) /\ ~Interior(0, 0) /\ ~Interior(1, 1)
    /\ BorderAlive

(***************************************************************************)
(* C26.  In the interactive driver, for a board of at least 2 rows and 2   *)
(* columns and any sequence of arrow-key, geometry-toggle, space, clear,   *)
(* random and Enter key events (no mouse events), the cursor always        *)
(* satisfies 2 <= cursor_y <= board.rows + 1 and 1 <= cursor_x <=          *)
(* board.cols under every geometry's wrap and reflect rule, so the         *)
(* toggle_cell(cursor_y - 2, cursor_x - 1) that Enter issues is always in  *)
(* range.                                                                  *)
(***************************************************************************)
C26_CursorStaysOnBoard ==
    /\ 2 <= cursor_y /\ cursor_y <= n_rows + 1
    /\ 1 <= cursor_x /\ cursor_x <= n_cols
    /\ (last.op = "key_enter" /\ Len(last.arg) = 2) =>
           /\ 0 <= last.arg[1] /\ last.arg[1] < n_rows
           /\ 0 <= last.arg[2] /\ last.arg[2] < n_cols

\* On a 3 x 4 projective plane Enter has toggled the bottom left cell with
\* the cursor on it.
C26_Witness ==
    /\ geometry = PROJECTIVE_PLANE /\ n_rows = 3 /\ n_cols = 4
    /\ last.op = "key_enter" /\ last.arg = <<2, 0>>
    /\ cursor_y = 4 /\ cursor_x = 1

====
